---- MODULE Spec2Model ----
(***************************************************************************)
(* Model of the UFDR retrieval backend: parser.py (format detection and    *)
(* the two schema extractors), database_builder.py (text projection,       *)
(* embedding, FAISS index file, SQLite chunk table) and main.py (the       *)
(* /upload and /query handlers sharing ml_models, report_index.faiss and   *)
(* report_data.db).                                                        *)
(*                                                                         *)
(* A text is a sequence of tokens; " " is a whitespace token, so that      *)
(* str.strip() and the f-string projections are computed, not assumed.     *)
(* A vector is one integer and the L2 distance is the squared difference.  *)
(***************************************************************************)
EXTENDS Integers, Sequences, FiniteSets, TLC

VARIABLES
    temp_report,    \* content of temp_report.zip (main.py:68)
    ml_models,      \* the "faiss_index" entry of ml_models (main.py:25)
    index_file,     \* report_index.faiss
    db,             \* report_data.db
    up,             \* the /upload coroutine: position and locals
    q,              \* the /query worker thread: position and locals
    n_uploads,      \* /upload requests received
    n_queries,      \* /query requests received
    uploads_ok,     \* /upload requests answered with the success message
    p_doc,          \* parser harness: the XML document under construction
    p_archive,      \* parser harness: the archive last given to parse_ufdr
    p_result        \* parser harness: what parse_ufdr did with p_archive

vars == <<temp_report, ml_models, index_file, db, up, q, n_uploads, n_queries,
          uploads_ok, p_doc, p_archive, p_result>>

sysvars == <<temp_report, ml_models, index_file, db, up, q, n_uploads,
             n_queries, uploads_ok>>

parservars == <<p_doc, p_archive, p_result>>

(***************************** bounds **************************************)
MaxUploads == 2

MaxQueries == 2

MaxElems == 3

(* k of the nearest-neighbour search *)
K == 5

(****************************** texts **************************************)
WS == " "

Unknown == <<"Unknown">>

DeviceOwner == <<"Device Owner">>

(* Python's None: the only value of the model that is not a str *)
NoneVal == <<"<None>">>

IsStr(t) == \A i \in 1..Len(t) : t[i] # "<None>"

RECURSIVE LStrip(_)
LStrip(t) == IF t # <<>> /\ Head(t) = WS THEN LStrip(Tail(t)) ELSE t

RECURSIVE RStrip(_)
RStrip(t) ==
    IF t # <<>> /\ t[Len(t)] = WS THEN RStrip(SubSeq(t, 1, Len(t) - 1)) ELSE t

(* str.strip() *)
Strip(t) == RStrip(LStrip(t))

(* str.lower() on a file name's extension *)
Lower(ext) ==
    CASE ext = "XML" -> "xml"
      [] ext = "Xml" -> "xml"
      [] ext = "TXT" -> "txt"
      [] OTHER -> ext

(************************ XML documents ************************************)
(* An element is a record giving, for each child name, the raw texts of    *)
(* the children of that name in document order (<<>>: no such child).      *)
(* A document gives, for each tag name the parser looks for, the elements  *)
(* of that name in document order, and whether the marker elements exist.  *)

Party(role, text) == [role |-> role, text |-> text]

Msg1 ==
    [TimeStamp |-> <<<<"T1">>>>, Body |-> <<<<WS, "Hello", WS>>>>,
     Party |-> <<Party("From", <<"Alice">>), Party("To", <<"Bob">>)>>]

Msg2 ==
    [TimeStamp |-> <<>>, Body |-> <<<<"Bye">>>>,
     Party |-> <<Party("From", <<WS, "Bob">>)>>]

Msg3 ==
    [TimeStamp |-> <<<<"T2">>>>, Body |-> <<>>,
     Party |-> <<Party("To", <<"Alice">>)>>]

Msg4 ==
    [TimeStamp |-> <<<<"T2">>, <<"T1">>>>, Body |-> <<<<>>>>,
     Party |-> <<Party("From", <<"Alice">>), Party("From", <<"Bob">>)>>]

MessageElems == {Msg1, Msg2, Msg3, Msg4}

Call1 ==
    [TimeStamp |-> <<<<"T1">>>>, Direction |-> <<<<"Incoming">>>>,
     Party |-> <<Party("From", <<"555">>)>>]

Call2 == [TimeStamp |-> <<>>, Direction |-> <<>>, Party |-> <<>>]

CallElems == {Call1, Call2}

Contact1 == [Name |-> <<<<"Alice">>>>, Phone |-> <<<<"555", WS>>>>]

Contact2 == [Name |-> <<<<"Bob">>>>, Phone |-> <<>>]

ContactElems == {Contact1, Contact2}

Sms1 ==
    [timestamp |-> <<<<"T1">>>>, body |-> <<<<"Hello">>>>,
     sender |-> <<<<"Alice">>>>, direction |-> <<<<"incoming">>>>]

Sms2 ==
    [timestamp |-> <<<<"T2">>>>, body |-> <<<<"Bye">>>>,
     sender |-> <<<<"Bob">>>>, direction |-> <<<<"outgoing">>>>]

Sms3 ==
    [timestamp |-> <<>>, body |-> <<<<"Hello">>>>,
     sender |-> <<>>, direction |-> <<>>]

Sms4 ==
    [timestamp |-> <<<<"T2">>>>, body |-> <<>>,
     sender |-> <<>>, direction |-> <<<<WS, "incoming">>>>]

SmsElems == {Sms1, Sms2, Sms3, Sms4}

Rec1 ==
    [date |-> <<<<"T1">>>>, type |-> <<<<"Missed">>>>,
     number |-> <<<<"777">>>>]

Rec2 == [date |-> <<<<"T2">>>>, type |-> <<>>, number |-> <<>>]

CallRecordElems == {Rec1, Rec2}

EmptyDoc ==
    [Chats |-> FALSE, sms_messages |-> FALSE, Message |-> <<>>, Call |-> <<>>,
     Contact |-> <<>>, sms |-> <<>>, call_record |-> <<>>]

DocSize(d) ==
    Len(d.Message) + Len(d.Call) + Len(d.Contact) + Len(d.sms)
        + Len(d.call_record)

(* A zip archive: whether the file is a zip at all, and its members. *)
Member(stem, ext, empty, doc) ==
    [stem |-> stem, ext |-> ext, empty |-> empty, doc |-> doc]

Archive(zip, members) == [zip |-> zip, members |-> members]

NoArchive == Archive(FALSE, <<>>)

(****************************** parser.py **********************************)
(* mutant: a missing child gives None instead of the sentinel *)
find_text_none(tag, name) ==
    IF tag[name] # <<>> THEN Strip(tag[name][1]) ELSE NoneVal

(* tag.find(name).text.strip(), or "Unknown" *)
find_text(tag, name) ==
    IF tag[name] # <<>> THEN Strip(tag[name][1]) ELSE Unknown

(* the text of the last Party with role="From", or "Unknown" *)
RECURSIVE from_party(_, _)
from_party(parties, acc) ==
    IF parties = <<>> THEN acc
    ELSE from_party(Tail(parties),
                    IF Head(parties).role = "From"
                    THEN Strip(Head(parties).text) ELSE acc)

chat_A(msg) ==
    [type |-> "chat", timestamp |-> find_text(msg, "TimeStamp"),
     sender |-> from_party(msg.Party, Unknown),
     content |-> find_text(msg, "Body")]

call_A(call) ==
    [type |-> "call", timestamp |-> find_text(call, "TimeStamp"),
     direction |-> find_text(call, "Direction"),
     number_or_contact |-> from_party(call.Party, Unknown)]

contact_A(contact) ==
    [type |-> "contact", name |-> find_text(contact, "Name"),
     number |-> find_text(contact, "Phone")]

_parse_format_A(soup) ==
    [i \in 1..Len(soup.Message) |-> chat_A(soup.Message[i])]
        \o [i \in 1..Len(soup.Call) |-> call_A(soup.Call[i])]
        \o [i \in 1..Len(soup.Contact) |-> contact_A(soup.Contact[i])]

chat_B(msg) ==
    [type |-> "chat", timestamp |-> find_text(msg, "timestamp"),
     sender |-> IF find_text(msg, "direction") = <<"incoming">>
                THEN find_text(msg, "sender") ELSE DeviceOwner,
     content |-> find_text(msg, "body")]

call_B(call) ==
    [type |-> "call", timestamp |-> find_text(call, "date"),
     direction |-> find_text(call, "type"),
     number_or_contact |-> find_text(call, "number")]

_parse_format_B(soup) ==
    [i \in 1..Len(soup.sms) |-> chat_B(soup.sms[i])]
        \o [i \in 1..Len(soup.call_record) |-> call_B(soup.call_record[i])]

(* mutant: the two markers are tested in the other order *)
detect_format_sms_first(soup) ==
    IF soup.sms_messages THEN "B"
    ELSE IF soup.Chats THEN "A"
    ELSE "None"

detect_format(soup) ==
    IF soup.Chats THEN "A"
    ELSE IF soup.sms_messages THEN "B"
    ELSE "None"

Raised(msg) == [ok |-> FALSE, err |-> msg, data |-> <<>>]

Returned(data) == [ok |-> TRUE, err |-> "", data |-> data]

(* the first member whose lower-cased name ends in .xml, 0 if none *)
first_xml(members) ==
    LET hits == {i \in 1..Len(members) : Lower(members[i].ext) = "xml"}
    IN IF hits = {} THEN 0 ELSE CHOOSE i \in hits : \A j \in hits : i <= j

parse_ufdr(file) ==
    IF ~file.zip THEN Raised("File is not a zip file")
    ELSE LET m == first_xml(file.members) IN
         IF m = 0 \/ file.members[m].empty
         THEN Raised("No XML file found in the UFDR ZIP archive.")
         ELSE LET soup == file.members[m].doc
                  format_type == detect_format(soup)
              IN IF format_type = "A" THEN Returned(_parse_format_A(soup))
                 ELSE IF format_type = "B"
                      THEN Returned(_parse_format_B(soup))
                      ELSE Raised("Unknown or unsupported XML report format.")

(* the archives that can carry document d, and those that carry nothing *)
ArchivesOf(d) ==
    { Archive(TRUE, <<Member("report", "xml", FALSE, d)>>),
      Archive(TRUE, <<Member("notes", "txt", FALSE, EmptyDoc),
                      Member("REPORT", "XML", FALSE, d)>>),
      Archive(TRUE, <<Member("report", "txt", FALSE, d)>>),
      Archive(TRUE, <<Member("empty", "xml", TRUE, EmptyDoc),
                      Member("report", "xml", FALSE, d)>>),
      Archive(FALSE, <<>>) }

(************************ parser harness ***********************************)
NotParsed == [called |-> FALSE, ok |-> FALSE, err |-> "", data |-> <<>>]

Parsed(r) == [called |-> TRUE, ok |-> r.ok, err |-> r.err, data |-> r.data]

ParserInit ==
    /\ p_doc = EmptyDoc
    /\ p_archive = NoArchive
    /\ p_result = NotParsed

ElemsOf(tag) ==
    CASE tag = "Message" -> MessageElems
      [] tag = "Call" -> CallElems
      [] tag = "Contact" -> ContactElems
      [] tag = "sms" -> SmsElems
      [] tag = "call_record" -> CallRecordElems

(* the document gains one more element *)
AddElement ==
    /\ DocSize(p_doc) < MaxElems
    /\ \E tag \in {"Message", "Call", "Contact", "sms", "call_record"} :
          \E e \in ElemsOf(tag) :
             p_doc' = [p_doc EXCEPT ![tag] = Append(@, e)]
    /\ p_archive' = NoArchive
    /\ p_result' = NotParsed
    /\ UNCHANGED sysvars

(* the document gains a marker element *)
AddMarker ==
    /\ \E tag \in {"Chats", "sms_messages"} :
          /\ ~p_doc[tag]
          /\ p_doc' = [p_doc EXCEPT ![tag] = TRUE]
    /\ p_archive' = NoArchive
    /\ p_result' = NotParsed
    /\ UNCHANGED sysvars

(* parse_ufdr is called on an archive built around the document *)
ParseArchive ==
    /\ ~p_result.called
    /\ \E a \in ArchivesOf(p_doc) :
          /\ p_archive' = a
          /\ p_result' = Parsed(parse_ufdr(a))
    /\ UNCHANGED <<p_doc, sysvars>>

ParserNext == AddElement \/ AddMarker \/ ParseArchive

(************************ database_builder.py ******************************)
(* json.dumps(item): reached only for a type outside chat, call, contact *)
json_dumps(item) == <<"{type: ", item.type, "}">>

(* the chunk of one record: the f-strings of build_database *)
project(item) ==
    IF item.type = "chat"
    THEN <<"Chat from ">> \o item.sender \o <<" at ">> \o item.timestamp
             \o <<": ">> \o item.content
    ELSE IF item.type = "call"
    THEN <<"Call log at ">> \o item.timestamp \o <<": ">> \o item.direction
             \o <<" call with ">> \o item.number_or_contact
    ELSE IF item.type = "contact"
    THEN <<"Contact entry: Name is ">> \o item.name \o <<", Number is ">>
             \o item.number
    ELSE json_dumps(item)

texts_to_embed(parsed_data) ==
    [i \in 1..Len(parsed_data) |-> project(parsed_data[i])]

(* The sentence model: a fixed function of the text. *)
TokCode(tok) ==
    CASE tok = "Alice" -> 1
      [] tok = "Bob" -> 2
      [] tok = "Hello" -> 4
      [] tok = "Bye" -> 8
      [] tok = "T1" -> 16
      [] tok = "T2" -> 32
      [] tok = "555" -> 64
      [] tok = "777" -> 128
      [] tok = "Unknown" -> 3
      [] tok = "Device Owner" -> 5
      [] tok = "Chat from " -> 256
      [] tok = "Call log at " -> 512
      [] tok = "Contact entry: Name is " -> 1024
      [] OTHER -> 0

RECURSIVE Embed(_)
Embed(text) == IF text = <<>> THEN 0 ELSE TokCode(Head(text)) + Embed(Tail(text))

(* mutant: the vectors come back in the reverse of the input order *)
encode_reversed(texts) ==
    [i \in 1..Len(texts) |-> Embed(texts[Len(texts) + 1 - i])]

(* model.encode(texts): one vector per text, in order *)
encode(texts) == [i \in 1..Len(texts) |-> Embed(texts[i])]

NoFile == [exists |-> FALSE, vecs |-> <<>>]

(* IndexFlatL2 + add + faiss.write_index: position i holds embeddings[i] *)
write_index(embeddings) == [exists |-> TRUE, vecs |-> embeddings]

NoDb == [exists |-> FALSE, table |-> FALSE, rows |-> <<>>]

(* os.remove(db_file) if it exists *)
remove_db(d) == NoDb

(* sqlite3.connect + CREATE TABLE IF NOT EXISTS chunks *)
create_table(d) ==
    IF d.exists /\ d.table THEN d
    ELSE [exists |-> TRUE, table |-> TRUE, rows |-> <<>>]

(* the (id, content) pairs of enumerate(texts_to_embed) *)
enumerate(texts) == [i \in 0..(Len(texts) - 1) |-> texts[i + 1]]

(* INSERT INTO chunks fails on an id the table already holds *)
insert_conflict(d, new) == DOMAIN d.rows \cap DOMAIN new # {}

(* mutant: the ids are left to SQLite, which numbers the rows from 1 *)
insert_rows_autoid(d, new) ==
    [d EXCEPT !.rows = [i \in DOMAIN d.rows \cup {j + 1 : j \in DOMAIN new} |->
                           IF i - 1 \in DOMAIN new THEN new[i - 1]
                           ELSE d.rows[i]]]

(* executemany(INSERT ...) + commit *)
insert_rows(d, new) ==
    [d EXCEPT !.rows = [i \in DOMAIN d.rows \cup DOMAIN new |->
                           IF i \in DOMAIN new THEN new[i] ELSE d.rows[i]]]

(******************************* main.py ***********************************)
NoIndex == [loaded |-> FALSE, vecs |-> <<>>]

(* mutant: the index read is not kept in ml_models *)
read_index_dropped(f) == NoIndex

(* faiss.read_index('report_index.faiss') *)
read_index(f) == [loaded |-> TRUE, vecs |-> f.vecs]

Dist(a, b) == (a - b) * (a - b)

(* The ways of listing the k nearest of the positions in `left`, nearest   *)
(* first; equal distances may come in either order.                        *)
RECURSIVE Nearest(_, _, _, _)
Nearest(vecs, qv, left, k) ==
    IF k = 0 \/ left = {} THEN {<<>>}
    ELSE LET best == {p \in left : \A r \in left :
                         Dist(vecs[p + 1], qv) <= Dist(vecs[r + 1], qv)}
         IN UNION {{<<p>> \o rest :
                       rest \in Nearest(vecs, qv, left \ {p}, k - 1)} :
                   p \in best}

(* index.search(question_vector, k)[1][0]: k labels, -1 where the index    *)
(* has no further vector                                                   *)
search(vecs, qv, k) ==
    {h \o [i \in 1..(k - Len(h)) |-> -1] :
        h \in Nearest(vecs, qv, 0..(Len(vecs) - 1), k)}

RECURSIVE Orderings(_)
Orderings(S) ==
    IF S = {} THEN {<<>>}
    ELSE UNION {{<<x>> \o rest : rest \in Orderings(S \ {x})} : x \in S}

Range(f) == {f[i] : i \in DOMAIN f}

(* SELECT content FROM chunks WHERE id IN (ids), no ORDER BY: the rows     *)
(* whose id is listed, each once, in an order the query does not fix       *)
select_content(d, ids) ==
    {[i \in 1..Len(o) |-> d.rows[o[i]]] :
        o \in Orderings(DOMAIN d.rows \cap Range(ids))}

(* the reports a client uploads *)
ReportA1 == [EmptyDoc EXCEPT !.Chats = TRUE, !.Message = <<Msg1>>]

ReportA6 ==
    [EmptyDoc EXCEPT !.Chats = TRUE, !.Message = <<Msg1, Msg2>>,
                     !.Call = <<Call1, Call2>>,
                     !.Contact = <<Contact1, Contact2>>]

ReportB3 ==
    [EmptyDoc EXCEPT !.sms_messages = TRUE, !.sms = <<Sms1, Sms2>>,
                     !.call_record = <<Rec1>>]

ReportA0 == [EmptyDoc EXCEPT !.Chats = TRUE]

ReportOther == [EmptyDoc EXCEPT !.Message = <<Msg1>>]

Zip(d) == Archive(TRUE, <<Member("report", "xml", FALSE, d)>>)

Uploads ==
    { Zip(ReportA1), Zip(ReportA6), Zip(ReportB3), Zip(ReportA0),
      Zip(ReportOther),
      Archive(TRUE, <<Member("readme", "txt", FALSE, EmptyDoc)>>) }

Questions ==
    { <<"Chat from ", "T1", "Alice">>, <<"Contact entry: Name is ", "Bob">> }

UpIdle ==
    [pc |-> "idle", ufdr_data |-> <<>>, texts |-> <<>>, embeddings |-> <<>>,
     result |-> ""]

QIdle ==
    [pc |-> "idle", question |-> <<>>, index |-> <<>>, hits |-> <<>>,
     retrieved |-> <<>>, result |-> ""]

SysInit ==
    /\ temp_report = NoArchive
    /\ ml_models = NoIndex
    /\ index_file = NoFile
    /\ db = NoDb
    /\ up = UpIdle
    /\ q = QIdle
    /\ n_uploads = 0
    /\ n_queries = 0
    /\ uploads_ok = 0

UploadError(msg) == [up EXCEPT !.pc = "done", !.result = msg]

(* main.py:66-73: a new /upload request; the file is saved *)
UploadSave ==
    /\ up.pc \in {"idle", "done"}
    /\ n_uploads < MaxUploads
    /\ \E a \in Uploads : temp_report' = a
    /\ up' = [UpIdle EXCEPT !.pc = "parse"]
    /\ n_uploads' = n_uploads + 1
    /\ UNCHANGED <<ml_models, index_file, db, q, n_queries, uploads_ok,
                   parservars>>

(* main.py:75: ufdr_data = parse_ufdr(temp_file_path) *)
UploadParse ==
    /\ up.pc = "parse"
    /\ LET r == parse_ufdr(temp_report) IN
       up' = IF r.ok THEN [up EXCEPT !.pc = "embed", !.ufdr_data = r.data]
             ELSE UploadError(r.err)
    /\ UNCHANGED <<temp_report, ml_models, index_file, db, q, n_uploads,
                   n_queries, uploads_ok, parservars>>

(* mutant: the old store is removed before the vectors are computed *)
BuildEmbed_RemoveFirst ==
    /\ up.pc = "embed"
    /\ db' = remove_db(db)
    /\ LET texts == texts_to_embed(up.ufdr_data) IN
       \/ up' = [up EXCEPT !.pc = "index", !.texts = texts,
                           !.embeddings = encode(texts)]
       \/ up' = UploadError("embedding model unavailable")
    /\ UNCHANGED <<temp_report, ml_models, index_file, q, n_uploads,
                   n_queries, uploads_ok, parservars>>

(* database_builder.py:26-51: the chunks and their vectors; the sentence  *)
(* model may fail to load or to encode                                    *)
BuildEmbed ==
    /\ up.pc = "embed"
    /\ LET texts == texts_to_embed(up.ufdr_data) IN
       \/ up' = [up EXCEPT !.pc = "index", !.texts = texts,
                           !.embeddings = encode(texts)]
       \/ up' = UploadError("embedding model unavailable")
    /\ UNCHANGED <<temp_report, ml_models, index_file, db, q, n_uploads,
                   n_queries, uploads_ok, parservars>>

(* database_builder.py:58-64: the index is built and written; with no     *)
(* record encode returns an array of shape (0,) and embeddings.shape[1]    *)
(* raises IndexError                                                       *)
BuildIndex ==
    /\ up.pc = "index"
    /\ IF up.embeddings = <<>>
       THEN /\ up' = UploadError("tuple index out of range")
            /\ UNCHANGED index_file
       ELSE /\ index_file' = write_index(up.embeddings)
            /\ up' = [up EXCEPT !.pc = "remove"]
    /\ UNCHANGED <<temp_report, ml_models, db, q, n_uploads, n_queries,
                   uploads_ok, parservars>>

(* database_builder.py:73-76 *)
BuildRemoveDb ==
    /\ up.pc = "remove"
    /\ db' = remove_db(db)
    /\ up' = [up EXCEPT !.pc = "create"]
    /\ UNCHANGED <<temp_report, ml_models, index_file, q, n_uploads,
                   n_queries, uploads_ok, parservars>>

(* database_builder.py:78-86 *)
BuildCreateTable ==
    /\ up.pc = "create"
    /\ db' = create_table(db)
    /\ up' = [up EXCEPT !.pc = "insert"]
    /\ UNCHANGED <<temp_report, ml_models, index_file, q, n_uploads,
                   n_queries, uploads_ok, parservars>>

(* database_builder.py:90-96 *)
BuildInsert ==
    /\ up.pc = "insert"
    /\ LET new == enumerate(up.texts) IN
       IF insert_conflict(db, new)
       THEN /\ up' = UploadError("UNIQUE constraint failed: chunks.id")
            /\ UNCHANGED db
       ELSE /\ db' = insert_rows(db, new)
            /\ up' = [up EXCEPT !.pc = "load"]
    /\ UNCHANGED <<temp_report, ml_models, index_file, q, n_uploads,
                   n_queries, uploads_ok, parservars>>

(* main.py:79-82: the new index replaces the loaded one; success *)
UploadLoad ==
    /\ up.pc = "load"
    /\ ml_models' = read_index(index_file)
    /\ up' = [up EXCEPT !.pc = "done", !.result = "ok"]
    /\ uploads_ok' = uploads_ok + 1
    /\ UNCHANGED <<temp_report, index_file, db, q, n_uploads, n_queries,
                   parservars>>

(* main.py:93-95: a new /query request; no index, no answer *)
QueryCheck ==
    /\ q.pc \in {"idle", "done"}
    /\ n_queries < MaxQueries
    /\ \E question \in Questions :
          q' = IF ml_models.loaded
               THEN [QIdle EXCEPT !.pc = "search", !.question = question]
               ELSE [QIdle EXCEPT !.pc = "done", !.question = question,
                                  !.result = "no_session"]
    /\ n_queries' = n_queries + 1
    /\ UNCHANGED <<temp_report, ml_models, index_file, db, up, n_uploads,
                   uploads_ok, parservars>>

(* main.py:99-102: the question is embedded and the loaded index searched *)
QuerySearch ==
    /\ q.pc = "search"
    /\ \E h \in search(ml_models.vecs, Embed(q.question), K) :
          q' = [q EXCEPT !.pc = "fetch", !.index = ml_models.vecs, !.hits = h]
    /\ UNCHANGED <<temp_report, ml_models, index_file, db, up, n_uploads,
                   n_queries, uploads_ok, parservars>>

(* main.py:104-112: the chunks of the hits are read from report_data.db;   *)
(* connecting creates a missing file, and SELECT fails without the table   *)
QueryFetch ==
    /\ q.pc = "fetch"
    /\ IF db.exists /\ db.table
       THEN /\ \E rows \in select_content(db, q.hits) :
                 q' = [q EXCEPT !.pc = "generate", !.retrieved = rows]
            /\ UNCHANGED db
       ELSE /\ q' = [q EXCEPT !.pc = "done", !.result = "db_error"]
            /\ db' = [exists |-> TRUE, table |-> FALSE, rows |-> <<>>]
    /\ UNCHANGED <<temp_report, ml_models, index_file, up, n_uploads,
                   n_queries, uploads_ok, parservars>>

(* main.py:115-149: the prompt goes to the answer service, which may fail *)
QueryGenerate ==
    /\ q.pc = "generate"
    /\ \/ q' = [q EXCEPT !.pc = "done", !.result = "answer"]
       \/ q' = [q EXCEPT !.pc = "done", !.result = "llm_error"]
    /\ UNCHANGED <<temp_report, ml_models, index_file, db, up, n_uploads,
                   n_queries, uploads_ok, parservars>>

Init == SysInit /\ ParserInit

Next ==
    \/ UploadSave
    \/ UploadParse
    \/ BuildEmbed
    \/ BuildIndex
    \/ BuildRemoveDb
    \/ BuildCreateTable
    \/ BuildInsert
    \/ UploadLoad
    \/ QueryCheck
    \/ QuerySearch
    \/ QueryFetch
    \/ QueryGenerate

Spec == Init /\ [][Next]_vars

ParserSpec == Init /\ [][ParserNext]_vars

(* The discipline the design asks for and main.py does not implement: a    *)
(* request is served only while no request of the other kind is under way. *)
UploadStep ==
    \/ UploadSave \/ UploadParse \/ BuildEmbed \/ BuildIndex
    \/ BuildRemoveDb \/ BuildCreateTable \/ BuildInsert \/ UploadLoad

QueryStep == QueryCheck \/ QuerySearch \/ QueryFetch \/ QueryGenerate

SerialNext ==
    \/ q.pc \in {"idle", "done"} /\ UploadStep
    \/ up.pc \in {"idle", "done"} /\ QueryStep

SerialSpec == Init /\ [][SerialNext]_vars

(*************************** properties ************************************)
Min(a, b) == IF a < b THEN a ELSE b

BuildOk == up.pc = "done" /\ up.result = "ok"

UploadFailed == up.pc = "done" /\ up.result \notin {"", "ok"}

(* the chunks of a report, position by position, from the archive alone *)
ChunksOf(a) == enumerate(texts_to_embed(parse_ufdr(a).data))

(* C1: after a successful upload of a report that parses to N records, the *)
(* loaded index holds N vectors, the chunk table holds exactly the ids     *)
(* 0..N-1, chunk i is the projection of record i and vector i is the       *)
(* embedding of chunk i.                                                   *)
C1_Bijection ==
    BuildOk =>
        LET N == Len(up.ufdr_data) IN
        /\ up.ufdr_data = parse_ufdr(temp_report).data
        /\ ml_models.loaded /\ Len(ml_models.vecs) = N
        /\ index_file.exists /\ index_file.vecs = ml_models.vecs
        /\ db.exists /\ db.table /\ DOMAIN db.rows = 0..(N - 1)
        /\ \A i \in 0..(N - 1) :
              /\ db.rows[i] = project(up.ufdr_data[i + 1])
              /\ ml_models.vecs[i + 1] = Embed(db.rows[i])

C1_Witness ==
    /\ BuildOk
    /\ temp_report = Zip(ReportA6)
    /\ Len(ml_models.vecs) = 6
    /\ db.rows[0] = <<"Chat from ", "Alice", " at ", "T1", ": ", "Hello">>
    /\ db.rows[5] =
          <<"Contact entry: Name is ", "Bob", ", Number is ", "Unknown">>

(* C2: no query fetches its chunks from a store that is not the store of   *)
(* the index it searched: when the fetch runs, report_data.db exists, is   *)
(* complete and holds, position by position, the chunks whose vectors the  *)
(* query searched.                                                         *)
StoreOfIndex(vecs, d) ==
    /\ d.exists /\ d.table
    /\ DOMAIN d.rows = 0..(Len(vecs) - 1)
    /\ \A i \in DOMAIN d.rows : Embed(d.rows[i]) = vecs[i + 1]

C2_MutualExclusion ==
    [][(q.pc = "fetch" /\ q'.pc # "fetch") => StoreOfIndex(q.index, db)]_vars

(* C3: after a successful upload the chunk table is exactly the chunks of  *)
(* the report just uploaded, ids 0..N-1, whatever was built before: no row *)
(* of an earlier build is left, and the same archive gives the same table. *)
C3_Replace ==
    BuildOk =>
        /\ db.exists /\ db.table
        /\ DOMAIN db.rows = DOMAIN ChunksOf(temp_report)
        /\ \A i \in DOMAIN db.rows : db.rows[i] = ChunksOf(temp_report)[i]

(* a one-chunk report built after a six-chunk report that a query searched *)
C3_Witness ==
    /\ BuildOk
    /\ uploads_ok = 2
    /\ temp_report = Zip(ReportA1)
    /\ Len(q.index) = 6
    /\ DOMAIN db.rows = {0}

(* the chunks of the hits that have a row, in hit order *)
RECURSIVE InHitOrder(_, _)
InHitOrder(d, hits) ==
    IF hits = <<>> THEN <<>>
    ELSE (IF Head(hits) \in DOMAIN d.rows THEN <<d.rows[Head(hits)]>> ELSE <<>>)
             \o InHitOrder(d, Tail(hits))

(* C4: the context lists the retrieved chunks in hit order: its i-th chunk *)
(* is the chunk at the position of the i-th nearest hit.                   *)
C4_HitOrder ==
    [][(q.pc = "fetch" /\ q'.pc = "generate")
          => q'.retrieved = InHitOrder(db, q.hits)]_vars

(* C5: a query gets the no-session error exactly when it is checked before *)
(* any upload has succeeded, and such a query has searched and fetched     *)
(* nothing.                                                                *)
C5_NoSession ==
    /\ [](q.result = "no_session"
            => q.pc = "done" /\ q.index = <<>> /\ q.hits = <<>>
                  /\ q.retrieved = <<>>)
    /\ [][n_queries' # n_queries
            => ((q'.result = "no_session") <=> (uploads_ok = 0))]_vars
    /\ [][(q'.result = "no_session" /\ q.result # "no_session")
            => n_queries' # n_queries]_vars

C5_Witness ==
    /\ q.result = "no_session"
    /\ UploadFailed
    /\ uploads_ok = 0

(* C6: when a hit position has no row in the store, the fetch does not     *)
(* fail: the query goes on to answer generation with the chunks of the     *)
(* hit positions that do have a row.                                       *)
C6_MissingOmitted ==
    [][(/\ q.pc = "fetch" /\ q'.pc # "fetch"
        /\ \E i \in 1..Len(q.hits) :
              ~(db.table /\ q.hits[i] \in DOMAIN db.rows))
          => /\ q'.pc = "generate"
             /\ Len(q'.retrieved) = Cardinality(Range(q.hits) \cap DOMAIN db.rows)
             /\ \A p \in Range(q.hits) \cap DOMAIN db.rows :
                   db.rows[p] \in Range(q'.retrieved)]_vars

(* C7: a query that searched an index of N vectors retrieves exactly       *)
(* min(5, N) chunks, from distinct positions in 0..N-1.                    *)
C7_KBound ==
    (q.pc = "generate" \/ (q.pc = "done" /\ q.result # "no_session"))
        => LET N == Len(q.index)
               valid == {i \in 1..Len(q.hits) : q.hits[i] \in 0..(N - 1)}
           IN /\ Cardinality(valid) = Min(K, N)
              /\ \A i, j \in valid : i # j => q.hits[i] # q.hits[j]
              /\ Len(q.retrieved) = Min(K, N)

(* the uploaded session: what a query reads *)
Session == <<ml_models, index_file, db>>

(* C10: an upload that fails in the parser or in the embedding step ends   *)
(* with an error payload and no second attempt, and no step of it, from    *)
(* the request to the failure, changes the loaded index, the index file or *)
(* the chunk store.                                                        *)
C10_FailedUploadFrame ==
    /\ [][(up' # up /\ up'.pc \in {"parse", "embed", "index"})
            => UNCHANGED Session]_vars
    /\ [][(up' # up /\ up.pc \in {"parse", "embed"} /\ up'.pc = "done")
            => /\ UNCHANGED Session
               /\ up'.result \notin {"", "ok"}
               /\ UNCHANGED <<n_uploads, uploads_ok>>]_vars
    /\ [][(up' # up /\ up.pc = "done") => n_uploads' = n_uploads + 1]_vars

(* an embedding failure after a successful build; a query is then answered *)
(* from the report built before                                            *)
C10_Witness ==
    /\ up.pc = "done" /\ up.result = "embedding model unavailable"
    /\ uploads_ok = 1 /\ n_uploads = 2
    /\ q.result = "answer"
    /\ StoreOfIndex(q.index, db)
    /\ Len(q.index) > 0

(* parse_ufdr was given an archive whose first .xml member is the document *)
DocParsed ==
    /\ p_result.called
    /\ p_archive.zip
    /\ \E i \in 1..Len(p_archive.members) :
          /\ p_archive.members[i].ext \in {"xml", "XML"}
          /\ ~p_archive.members[i].empty
          /\ p_archive.members[i].doc = p_doc
          /\ \A j \in 1..(i - 1) : p_archive.members[j].ext = "txt"

(* the record types of n chats, then m calls, then c contacts *)
Types(n, m, c) ==
    [i \in 1..(n + m + c) |->
        IF i <= n THEN "chat" ELSE IF i <= n + m THEN "call" ELSE "contact"]

TypesOf(data) == [i \in 1..Len(data) |-> data[i].type]

(* C8: a document with a Chats element gives one chat per Message, then   *)
(* one call per Call, then one contact per Contact; without Chats but with *)
(* sms_messages, one chat per sms, then one call per call_record, and no   *)
(* contact; with neither, the unsupported-format error and no record.      *)
C8_SchemaDispatch ==
    DocParsed =>
        IF p_doc.Chats
        THEN /\ p_result.ok
             /\ TypesOf(p_result.data) =
                   Types(Len(p_doc.Message), Len(p_doc.Call),
                         Len(p_doc.Contact))
        ELSE IF p_doc.sms_messages
        THEN /\ p_result.ok
             /\ TypesOf(p_result.data) =
                   Types(Len(p_doc.sms), Len(p_doc.call_record), 0)
        ELSE /\ ~p_result.ok
             /\ p_result.err = "Unknown or unsupported XML report format."
             /\ p_result.data = <<>>

(* both markers, and elements of both vocabularies: Schema A wins *)
C8_Witness ==
    /\ DocParsed
    /\ p_doc.Chats /\ p_doc.sms_messages
    /\ Len(p_doc.Message) = 1 /\ Len(p_doc.Contact) = 1 /\ Len(p_doc.sms) = 1
    /\ TypesOf(p_result.data) = <<"chat", "contact">>

FieldsOf(r) ==
    IF r.type = "chat" THEN {r.timestamp, r.sender, r.content}
    ELSE IF r.type = "call"
    THEN {r.timestamp, r.direction, r.number_or_contact}
    ELSE {r.name, r.number}

AllStr(data) ==
    \A i \in 1..Len(data) : \A f \in FieldsOf(data[i]) : IsStr(f)

NoChild(tag, name) == tag[name] = <<>>

NoFrom(tag) == \A i \in 1..Len(tag.Party) : tag.Party[i].role # "From"

(* Schema A: a missing child, or no Party with role From, gives "Unknown" *)
MissingUnknownA(d, data) ==
    LET n == Len(d.Message)
        m == Len(d.Call)
    IN /\ \A i \in 1..n :
             /\ NoChild(d.Message[i], "TimeStamp")
                   => data[i].timestamp = Unknown
             /\ NoChild(d.Message[i], "Body") => data[i].content = Unknown
             /\ NoFrom(d.Message[i]) => data[i].sender = Unknown
       /\ \A i \in 1..m :
             /\ NoChild(d.Call[i], "TimeStamp")
                   => data[n + i].timestamp = Unknown
             /\ NoChild(d.Call[i], "Direction")
                   => data[n + i].direction = Unknown
             /\ NoFrom(d.Call[i]) => data[n + i].number_or_contact = Unknown
       /\ \A i \in 1..Len(d.Contact) :
             /\ NoChild(d.Contact[i], "Name")
                   => data[n + m + i].name = Unknown
             /\ NoChild(d.Contact[i], "Phone")
                   => data[n + m + i].number = Unknown

(* Schema B, every field but the sender of a chat *)
MissingUnknownB(d, data) ==
    LET n == Len(d.sms) IN
    /\ \A i \in 1..n :
          /\ NoChild(d.sms[i], "timestamp") => data[i].timestamp = Unknown
          /\ NoChild(d.sms[i], "body") => data[i].content = Unknown
    /\ \A i \in 1..Len(d.call_record) :
          /\ NoChild(d.call_record[i], "date")
                => data[n + i].timestamp = Unknown
          /\ NoChild(d.call_record[i], "type")
                => data[n + i].direction = Unknown
          /\ NoChild(d.call_record[i], "number")
                => data[n + i].number_or_contact = Unknown

Incoming(sms) ==
    ~NoChild(sms, "direction") /\ Strip(sms.direction[1]) = <<"incoming">>

(* C9 as stated: every field is a str, and a field whose source element is *)
(* missing is "Unknown", the sender of a Schema B chat included.           *)
C9_MissingIsUnknown ==
    (DocParsed /\ (p_doc.Chats \/ p_doc.sms_messages)) =>
        /\ p_result.ok
        /\ AllStr(p_result.data)
        /\ IF p_doc.Chats THEN MissingUnknownA(p_doc, p_result.data)
           ELSE /\ MissingUnknownB(p_doc, p_result.data)
                /\ \A i \in 1..Len(p_doc.sms) :
                      NoChild(p_doc.sms[i], "sender")
                         => p_result.data[i].sender = Unknown

(* C9 amended: as stated, but the sender of a Schema B chat is "Unknown"   *)
(* for a missing sender element only when the direction is "incoming", and *)
(* is "Device Owner" whenever the direction is anything else or missing.   *)
C9_MissingIsUnknownButSender ==
    (DocParsed /\ (p_doc.Chats \/ p_doc.sms_messages)) =>
        /\ p_result.ok
        /\ AllStr(p_result.data)
        /\ IF p_doc.Chats THEN MissingUnknownA(p_doc, p_result.data)
           ELSE /\ MissingUnknownB(p_doc, p_result.data)
                /\ \A i \in 1..Len(p_doc.sms) :
                      IF Incoming(p_doc.sms[i])
                      THEN NoChild(p_doc.sms[i], "sender")
                              => p_result.data[i].sender = Unknown
                      ELSE p_result.data[i].sender = DeviceOwner

(* sms and call_record elements with children missing, extracted without *)
(* error: the first sms has no sender and no direction, the second is     *)
(* incoming and has no sender                                              *)
C9_Witness ==
    /\ DocParsed /\ p_result.ok /\ ~p_doc.Chats
    /\ p_doc.sms = <<Sms3, Sms4>> /\ p_doc.call_record = <<Rec2>>
    /\ p_result.data[1].timestamp = Unknown
    /\ p_result.data[1].sender = DeviceOwner
    /\ p_result.data[2].sender = Unknown
    /\ p_result.data[2].content = Unknown
    /\ p_result.data[3].number_or_contact = Unknown

====
